---- MODULE Spec2Model ----
(***************************************************************************)
(* Model of research/analyze_results.py (opscart/docker-internals-guide):  *)
(* the value parser parse_float, the descriptive statistics compute_stats  *)
(* and the significance test mann_whitney_u.                               *)
(*                                                                         *)
(* Numbers.  A measurement is an integer count of hundredths (1.25 is 125),*)
(* the resolution of every field of a summary.  Means, deviations and      *)
(* confidence intervals are kept exact: a quantity of the form             *)
(* (a + s*sqrt(X))/b is rounded by integer comparisons only, never through *)
(* an approximate square root.  Python's round(x, 2) rounds the binary     *)
(* double; where the exact value lies on a decimal tie (x.xx5) the         *)
(* direction depends on the representation error of that double, so the    *)
(* direction is an input of each call (up), not a choice of the model.     *)
(***************************************************************************)
EXTENDS Integers, Sequences, FiniteSets, TLC

VARIABLES
    values,     \* compute_stats: the caller's list (entries <<v>> or None)
    stats,      \* compute_stats: the returned summary, None, or pending
    group_a,    \* mann_whitney_u: first sample
    group_b,    \* mann_whitney_u: second sample
    HAS_SCIPY,  \* module flag set by the import at load time
    mw,         \* mann_whitney_u: the returned result, None, or pending
    token,      \* parse_float: the raw text, a sequence of characters
    parsed,     \* parse_float: the returned value, None, or pending
    analyzer,   \* analyze_*: which of the nine analyzers runs (1..9)
    rows,       \* analyze_*: the rows load_csv returned for its file
    result,     \* analyze_*: what the analyzer did and returned, or pending
    argv,       \* main: sys.argv[1:]
    fs,         \* main: the directories named on the command line
    pc,         \* main: where the run is
    calls,      \* main: the analyzer calls made so far, with their outcome
    message,    \* main: the usage or error text printed, if any
    exit_status, \* main: the exit status once the process has ended
    platform_dirs, \* cross_platform_comparison: the directory paths given
    startup,    \* cross_platform_comparison: startup data of each directory
    sweep,      \* cross_platform_comparison: what it printed, or pending
    reordered,  \* compute_stats: the caller's list in another order
    stats2,     \* compute_stats: the summary returned for reordered, or pending
    table       \* cross_platform_comparison: the line of one file in its table, or pending

mainVars == <<argv, fs, pc, calls, message, exit_status>>
sweepVars == <<platform_dirs, startup, sweep>>
orderVars == <<reordered, stats2>>
tableVars == <<table>>
callerVars == <<analyzer, rows, result, mainVars, sweepVars, orderVars, tableVars>>
vars == <<values, stats, group_a, group_b, HAS_SCIPY, mw, token, parsed, callerVars>>

(***************************************************************************)
(* Bounds of the model.                                                    *)
(***************************************************************************)
MaxLen == 4         \* longest list handed to compute_stats in Spec
MaxN == 31          \* longest list handed to compute_stats in SpecBrackets
MaxGroup == 5       \* longest first sample handed to mann_whitney_u in SpecMW
MaxPieces == 2      \* most trailing pieces appended to a token body in SpecParse
MaxRows == 3        \* most rows of a CSV file in SpecAnalyze
MaxBadFiles == 1    \* most files of a directory that lack a column in SpecMain
MaxDirs == 3        \* most directories given to cross_platform_comparison in SpecSweep

\* Measurements (hundredths) that Spec draws list entries from.
Vals == {0, 1, 2, 3, 4}
\* Measurements that SpecBrackets draws its two-valued lists from.
BracketVals == {0, 100, 200}
\* Measurements that SpecMW draws the two samples from.
MWVals == {0, 1, 2, 3}

None == <<>>
Some(v) == <<v>>
Pending == [kind |-> "pending"]
NoResult == [kind |-> "None"]

(***************************************************************************)
(* Exact arithmetic helpers.                                               *)
(***************************************************************************)
\* a/b <= c/d for a, c >= 0 and b, d > 0, by continued fractions: no product
\* is formed, so the comparison is exact for every representable operand.
RECURSIVE LeqFrac(_, _, _, _)
LeqFrac(a, b, c, d) ==
    LET qa == a \div b
        qc == c \div d
        ra == a % b
        rc == c % d
    IN  IF qa # qc THEN qa < qc
        ELSE IF ra = 0 THEN TRUE
        ELSE IF rc = 0 THEN FALSE
        ELSE LeqFrac(d, rc, b, ra)

\* Largest m in lo..hi with m*m <= M1*M2/E (binary search; lo satisfies it).
RECURSIVE FloorRootIn(_, _, _, _, _)
FloorRootIn(M1, M2, E, lo, hi) ==
    IF lo = hi THEN lo
    ELSE LET mid == (lo + hi + 1) \div 2
         IN  IF LeqFrac(mid * mid, M1, M2, E)
             THEN FloorRootIn(M1, M2, E, mid, hi)
             ELSE FloorRootIn(M1, M2, E, lo, mid - 1)

\* floor(sqrt(M1*M2/E)) for M1 > 0, M2 >= 0, E > 0.
FloorRoot(M1, M2, E) == FloorRootIn(M1, M2, E, 0, 46340)

\* sqrt(M1*M2/E) is an integer.
RootIsExact(M1, M2, E) ==
    LET m == FloorRoot(M1, M2, E)
    IN  LeqFrac(M2, E, m * m, M1)

\* round((a2 + s*W2) / (2*b)) to the nearest integer, W2 = sqrt(M1*M2/E),
\* s in {-1, 0, 1}, b > 0; an exact tie goes up or down as `up` says.
RoundSurd(a2, s, M1, M2, E, b, up) ==
    LET fl == FloorRoot(M1, M2, E)
        exact == RootIsExact(M1, M2, E)
        w == IF s = 0 THEN 0
             ELSE IF s = 1 THEN fl
             ELSE IF exact THEN -fl ELSE -(fl + 1)
        num == a2 + b + w
        j == num \div (2 * b)
        tie == (s = 0 \/ exact) /\ num % (2 * b) = 0
    IN  IF tie /\ ~up THEN j - 1 ELSE j

\* round(num/den) for den > 0.
RoundRat(num, den, up) == RoundSurd(2 * num, 0, 1, 0, 1, den, up)

RECURSIVE SumSeq(_)
SumSeq(s) == IF s = <<>> THEN 0 ELSE Head(s) + SumSeq(Tail(s))

RECURSIVE SumSq(_)
SumSq(s) == IF s = <<>> THEN 0 ELSE Head(s) * Head(s) + SumSq(Tail(s))

MinSeq(s) == CHOOSE x \in {s[i] : i \in DOMAIN s} : \A i \in DOMAIN s : x <= s[i]
MaxSeq(s) == CHOOSE x \in {s[i] : i \in DOMAIN s} : \A i \in DOMAIN s : x >= s[i]

\* sorted(values)
Sorted(s) == SortSeq(s, LAMBDA x, y : x < y)

(***************************************************************************)
(* compute_stats                                                           *)
(***************************************************************************)
\* A truthiness filter ("if v") also drops 0.0.
NotNoneTruthy(vs) ==
    LET kept == SelectSeq(vs, LAMBDA e : e # None /\ e # Some(0))
    IN  [i \in DOMAIN kept |-> kept[i][1]]

\* values = [v for v in values if v is not None]
NotNone(vs) ==
    LET kept == SelectSeq(vs, LAMBDA e : e # None)
    IN  [i \in DOMAIN kept |-> kept[i][1]]

\* The lower-middle element, sorted_vals[(n - 1) // 2].
MedianLowerMiddle(xs) == Sorted(xs)[((Len(xs) - 1) \div 2) + 1]

\* median = sorted_vals[n // 2]  (Python indexes from 0, TLA+ from 1)
Median(xs) == Sorted(xs)[(Len(xs) \div 2) + 1]

\* The brackets with strict comparisons (n > 30, n > 20, n > 10).
CIMultiplierStrict(n) ==
    IF n > 30 THEN <<49, 25>>
    ELSE IF n > 20 THEN <<409, 200>>
    ELSE IF n > 10 THEN <<1131, 500>>
    ELSE <<347, 125>>

\* The 95% multiplier chosen by n, as a fraction:
\* 1.96 = 49/25, 2.045 = 409/200, 2.262 = 1131/500, 2.776 = 347/125.
CIMultiplier(n) ==
    IF n >= 30 THEN <<49, 25>>
    ELSE IF n >= 20 THEN <<409, 200>>
    ELSE IF n >= 10 THEN <<1131, 500>>
    ELSE <<347, 125>>

\* n * sum((x - mean)**2 for x in values), an integer: n*sum(x^2) - sum(x)^2.
NSumSqDev(xs) == Len(xs) * SumSq(xs) - SumSeq(xs) * SumSeq(xs)

\* The population deviation: the squared deviations divided by n.
StdPopulation(xs, up) ==
    LET n == Len(xs)
    IN  IF n > 1
        THEN RoundSurd(0, 1, 4, NSumSqDev(xs), n * n, 1, up)
        ELSE 0

\* round(std, 2): std = sqrt(variance), variance = sum((x-mean)^2)/(n-1) for
\* n > 1 and std = 0.0 otherwise.  2*std = sqrt(4 * NSumSqDev / (n*(n-1))).
StdRounded(xs, up) ==
    LET n == Len(xs)
    IN  IF n > 1
        THEN RoundSurd(0, 1, 4, NSumSqDev(xs), n * (n - 1), 1, up)
        ELSE 0

\* The unrounded half-width times 2n, squared, as M1*M2/E:
\* ci_95 = c * std / sqrt(n), so (2n*ci_95)^2 = (2*cnum)^2 * NSumSqDev /
\* (cden^2 * (n-1)); for n = 1 std is 0.0 and so is ci_95.
CIM1(n) == (2 * CIMultiplier(n)[1]) * (2 * CIMultiplier(n)[1])
CIM2(xs) == IF Len(xs) > 1 THEN NSumSqDev(xs) ELSE 0
CIE(n) == IF n > 1
          THEN CIMultiplier(n)[2] * CIMultiplier(n)[2] * (n - 1)
          ELSE 1

\* Both bounds computed as mean + ci_95.
CIAffineAlwaysPlus(a2n, s, xs, up) ==
    LET n == Len(xs)
    IN  RoundSurd(a2n, 1, CIM1(n), CIM2(xs), CIE(n), n, up)

\* round(a + s*ci_95, 2) where a = a2n/(2n)
CIAffine(a2n, s, xs, up) ==
    LET n == Len(xs)
    IN  RoundSurd(a2n, s, CIM1(n), CIM2(xs), CIE(n), n, up)

compute_stats(vs, up) ==
    LET xs == NotNone(vs)
        n == Len(xs)
        total == SumSeq(xs)
    IN  IF n = 0 THEN NoResult
        ELSE [kind |-> "stats",
              n |-> n,
              mean |-> RoundRat(total, n, up),
              median |-> Median(xs),
              std |-> StdRounded(xs, up),
              ci_95 |-> CIAffine(0, 1, xs, up),
              min |-> MinSeq(xs),
              max |-> MaxSeq(xs),
              ci_lower |-> CIAffine(2 * total, -1, xs, up),
              ci_upper |-> CIAffine(2 * total, 1, xs, up)]

(***************************************************************************)
(* The caller of compute_stats: a list is built, then summarised once.     *)
(***************************************************************************)
IdleMW == /\ group_a = <<>>
          /\ group_b = <<>>
          /\ HAS_SCIPY = TRUE
          /\ mw = Pending
IdleParse == /\ token = [kind |-> "None"]
             /\ parsed = Pending
IdleAnalyze == /\ analyzer = 0
               /\ rows = <<>>
               /\ result = [kind |-> "pending"]
IdleMain == /\ argv = <<>>
            /\ fs = <<>>
            /\ pc = "idle"
            /\ calls = <<>>
            /\ message = ""
            /\ exit_status = <<>>
IdleSweep == /\ platform_dirs = <<>>
             /\ startup = <<>>
             /\ sweep = [kind |-> "pending"]
IdleOrder == /\ reordered = <<>>
             /\ stats2 = [kind |-> "pending"]
IdleTable == table = [kind |-> "pending"]
IdleCallers == IdleAnalyze /\ IdleMain /\ IdleSweep /\ IdleOrder /\ IdleTable
IdleStats == /\ values = <<>>
             /\ stats = Pending

Init == /\ values = <<>>
        /\ stats = Pending
        /\ IdleMW
        /\ IdleParse
        /\ IdleCallers

\* groups[key].append(val), or a caller's list holding a missing entry
AppendValue ==
    /\ stats = Pending
    /\ Len(values) < MaxLen
    /\ \E e \in {Some(v) : v \in Vals} \cup {None} :
          values' = Append(values, e)
    /\ UNCHANGED <<stats, group_a, group_b, HAS_SCIPY, mw, token, parsed, callerVars>>

\* s = compute_stats(values)
ComputeStats ==
    /\ stats = Pending
    /\ \E up \in BOOLEAN : stats' = compute_stats(values, up)
    /\ UNCHANGED <<values, group_a, group_b, HAS_SCIPY, mw, token, parsed, callerVars>>

Next == AppendValue \/ ComputeStats

Spec == Init /\ [][Next]_vars

\* Lists of n <= MaxN entries holding at most two distinct measurements:
\* long enough to reach every sample-size bracket of the multiplier.
Repeat(v, k) == [i \in 1..k |-> Some(v)]

InitBrackets ==
    /\ \E a \in BracketVals, b \in BracketVals, k \in 0..MaxN, m \in 0..MaxN :
          /\ k + m <= MaxN
          /\ values = Repeat(a, k) \o Repeat(b, m)
    /\ stats = Pending
    /\ IdleMW
    /\ IdleParse
    /\ IdleCallers

SpecBrackets == InitBrackets /\ [][ComputeStats]_vars

(***************************************************************************)
(* compute_stats on one list in two orders.                                *)
(*                                                                         *)
(* sum(values) and the sum of squared deviations are accumulated in list   *)
(* order in binary floating point, so the double handed to round() can     *)
(* differ in its last bits between two orders of the same values; where    *)
(* the exact value is a decimal tie each order has its own direction.      *)
(* The same list in the same order gives the same result, and so does a    *)
(* list whose entries that are not None differ only by the exchange of     *)
(* the first two: 0 + a + b and 0 + b + a are the same double, addition    *)
(* being commutative, and every later partial sum is then the same.        *)
(***************************************************************************)
\* s with the entries at positions i and j exchanged
Swap(s, i, j) ==
    [k \in DOMAIN s |-> IF k = i THEN s[j] ELSE IF k = j THEN s[i] ELSE s[k]]

\* both orders run the same floating-point additions (lines 75, 80)
SameSums(a, b) ==
    LET ka == NotNone(a)
        kb == NotNone(b)
    IN  \/ ka = kb
        \/ /\ Len(ka) >= 2
           /\ kb = Swap(ka, 1, 2)

InitOrder ==
    /\ values \in UNION {[1..n -> {Some(v) : v \in Vals} \cup {None}] : n \in 0..MaxLen}
    /\ reordered \in {values} \cup {Swap(values, i, j) : i \in DOMAIN values, j \in DOMAIN values}
    /\ stats = Pending
    /\ stats2 = Pending
    /\ IdleMW
    /\ IdleParse
    /\ IdleAnalyze
    /\ IdleMain
    /\ IdleSweep
    /\ IdleTable

\* s2 = compute_stats(reordered), after s = compute_stats(values)
ComputeStatsReordered ==
    /\ stats # Pending
    /\ stats2 = Pending
    /\ IF SameSums(values, reordered) THEN stats2' = stats
       ELSE \E up \in BOOLEAN : stats2' = compute_stats(reordered, up)
    /\ UNCHANGED <<values, stats, group_a, group_b, HAS_SCIPY, mw, token, parsed,
                   analyzer, rows, result, mainVars, sweepVars, reordered, tableVars>>

SpecOrder == InitOrder /\ [][ComputeStats \/ ComputeStatsReordered]_vars

(***************************************************************************)
(* mann_whitney_u                                                          *)
(*                                                                         *)
(* scipy.stats.mannwhitneyu(x, y, alternative='two-sided') is modelled as  *)
(* the library computes it: the statistic of x from the midranks of the    *)
(* pooled sample, U1 = R1 - n1(n1+1)/2, and, with method 'auto', the       *)
(* p-value of the normal approximation with tie and continuity correction  *)
(* whenever the pooled sample has ties.  Every pair of samples SpecMW      *)
(* draws with both sizes >= 5 pools ten or more observations over four     *)
(* distinct measurements, so it has ties and the approximation is the      *)
(* method used.  The p-value 2*sf(z) is a value of the normal distribution *)
(* function; the model keeps its order against a level c, which is the     *)
(* order of z*z against the squared quantile of c:  p < c  iff  z > 0 and  *)
(* z*z > q(c)^2.  Cliff's delta is a fraction with denominator n1*n2; it   *)
(* can equal a label threshold only when n1*n2 is a multiple of 100, which *)
(* no pair of samples within the bounds reaches, so exact and double       *)
(* arithmetic order it against the thresholds alike.                       *)
(***************************************************************************)
MinGroupSize == 5

RECURSIVE SumOver(_, _)
SumOver(S, f) ==
    IF S = {} THEN 0
    ELSE LET x == CHOOSE y \in S : TRUE
         IN  f[x] + SumOver(S \ {x}, f)

\* Twice the midrank of v in the pooled sample (rankdata, method "average").
Rank2(v, pooled) ==
    2 * Cardinality({i \in DOMAIN pooled : pooled[i] < v})
      + Cardinality({i \in DOMAIN pooled : pooled[i] = v}) + 1

\* The statistic of the second sample in place of the first.
U1x2OfSecond(ga, gb) ==
    LET pooled == ga \o gb
        n2 == Len(gb)
        r == [i \in DOMAIN gb |-> Rank2(gb[i], pooled)]
    IN  SumOver(DOMAIN gb, r) - n2 * (n2 + 1)

\* 2 * U1, U1 = R1 - n1*(n1+1)/2 with R1 the rank sum of the first sample.
U1x2(ga, gb) ==
    LET pooled == ga \o gb
        n1 == Len(ga)
        r == [i \in DOMAIN ga |-> Rank2(ga[i], pooled)]
    IN  SumOver(DOMAIN ga, r) - n1 * (n1 + 1)

\* The tie term sum(t^3 - t) over the runs of equal pooled values.
TieTerm(ga, gb) ==
    LET pooled == ga \o gb
        distinct == {pooled[i] : i \in DOMAIN pooled}
        t == [v \in distinct |-> Cardinality({i \in DOMAIN pooled : pooled[i] = v})]
        term == [v \in distinct |-> t[v] * t[v] * t[v] - t[v]]
    IN  SumOver(distinct, term)

\* 2 * (U - mu - 0.5) with U = max(U1, U2) and mu = n1*n2/2.
ZNum2(ga, gb) ==
    LET nn == Len(ga) * Len(gb)
        u == U1x2(ga, gb)
        umax == IF u >= 2 * nn - u THEN u ELSE 2 * nn - u
    IN  umax - nn - 1

\* z*z = ZX/ZY:  s^2 = n1*n2/12 * ((n+1) - tie/(n*(n-1))),  z = (U-mu-0.5)/s.
ZX(ga, gb) ==
    LET n == Len(ga) + Len(gb)
    IN  3 * ZNum2(ga, gb) * ZNum2(ga, gb) * n * (n - 1)
ZY(ga, gb) ==
    LET n == Len(ga) + Len(gb)
    IN  Len(ga) * Len(gb) * ((n + 1) * n * (n - 1) - TieTerm(ga, gb))

\* Squared two-sided normal quantiles as fractions (error below 1e-10):
\* q(0.05)^2 = 3.8414588207, q(0.0499995)^2 = 3.8414755884,
\* q(0.0500005)^2 = 3.8414420532.
QSq(level) ==
    CASE level = "0.05" -> <<387511, 100876>>
      [] level = "0.0499995" -> <<253983, 66116>>
      [] level = "0.0500005" -> <<497824, 129593>>

\* p_value < level, for the p_value scipy returns (unrounded).
PBelow(ga, gb, level) ==
    /\ ZNum2(ga, gb) > 0
    /\ ~LeqFrac(ZX(ga, gb), ZY(ga, gb), QSq(level)[1], QSq(level)[2])

\* round(p_value, 6) against 0.05: it is below 0.05 iff p_value < 0.0499995
\* and above iff p_value >= 0.0500005.
PReported(ga, gb) ==
    IF PBelow(ga, gb, "0.0499995") THEN "<0.05"
    ELSE IF PBelow(ga, gb, "0.0500005") THEN "=0.05"
    ELSE ">0.05"

\* The significance flag taken from the reported (rounded) p_value.
SignificantFromRounded(ga, gb) == PBelow(ga, gb, "0.0499995")

\* 'significant': p_value < 0.05
Significant(ga, gb) == PBelow(ga, gb, "0.05")

\* The label chain without abs().
EffectSizeSigned(num, den) ==
    IF num * 1000 < 147 * den THEN "negligible"
    ELSE IF num * 100 < 33 * den THEN "small"
    ELSE IF num * 1000 < 474 * den THEN "medium"
    ELSE "large"

\* The label chain applied to round(cliffs_d, 3), ties away from zero.
EffectSizeOfRounded(num, den) ==
    LET a == IF num < 0 THEN -num ELSE num
        r == (2000 * a + den) \div (2 * den)
    IN  IF r < 147 THEN "negligible"
        ELSE IF r < 330 THEN "small"
        ELSE IF r < 474 THEN "medium"
        ELSE "large"

\* 'effect_size' for cliffs_d = num/den (den > 0)
EffectSize(num, den) ==
    LET a == IF num < 0 THEN -num ELSE num
    IN  IF a * 1000 < 147 * den THEN "negligible"
        ELSE IF a * 100 < 33 * den THEN "small"
        ELSE IF a * 1000 < 474 * den THEN "medium"
        ELSE "large"

\* The size test with "and" in place of "or".
TooSmallBoth(ga, gb) == Len(ga) < MinGroupSize /\ Len(gb) < MinGroupSize

\* len(group_a) < 5 or len(group_b) < 5
TooSmall(ga, gb) == Len(ga) < MinGroupSize \/ Len(gb) < MinGroupSize

\* Fields: u_statistic in hundredths, cliffs_delta in thousandths, p_value
\* as the order of the reported value against 0.05.
mann_whitney_u(ga, gb, has_scipy, up) ==
    IF ~has_scipy THEN NoResult
    ELSE IF TooSmall(ga, gb) THEN NoResult
    ELSE LET nn == Len(ga) * Len(gb)
             u == U1x2(ga, gb)
         IN  [kind |-> "mw",
              u_statistic |-> 50 * u,
              p_value |-> PReported(ga, gb),
              significant |-> Significant(ga, gb),
              cliffs_delta |-> RoundRat(1000 * (u - nn), nn, up),
              effect_size |-> EffectSize(u - nn, nn)]

\* Non-decreasing lists of n measurements.
RECURSIVE NonDecreasing(_)
NonDecreasing(n) ==
    IF n = 0 THEN {<<>>}
    ELSE {Append(p[1], p[2]) :
            p \in {q \in NonDecreasing(n - 1) \X MWVals :
                      n = 1 \/ q[1][n - 1] <= q[2]}}

\* Two samples: the first of MinGroupSize-1..MaxGroup values, the second
\* one short of the minimum, as long as the longest first sample, or twice that.
InitMW ==
    /\ \E n1 \in {MinGroupSize - 1, MaxGroup},
          n2 \in {MinGroupSize - 1, MaxGroup, 2 * MaxGroup} :
          /\ group_a \in NonDecreasing(n1)
          /\ group_b \in NonDecreasing(n2)
    /\ HAS_SCIPY \in BOOLEAN
    /\ mw = Pending
    /\ IdleStats
    /\ IdleParse
    /\ IdleCallers

\* result = mann_whitney_u(group_a, group_b)
MannWhitney ==
    /\ mw = Pending
    /\ \E up \in BOOLEAN : mw' = mann_whitney_u(group_a, group_b, HAS_SCIPY, up)
    /\ UNCHANGED <<values, stats, group_a, group_b, HAS_SCIPY, token, parsed, callerVars>>

SpecMW == InitMW /\ [][MannWhitney]_vars

\* Measurements of the samples of unequal size.
WideVals == {0, 1, 2}

\* Non-decreasing lists of n measurements drawn from WideVals.
RECURSIVE NonDecreasingWide(_)
NonDecreasingWide(n) ==
    IF n = 0 THEN {<<>>}
    ELSE {Append(p[1], p[2]) :
            p \in {q \in NonDecreasingWide(n - 1) \X WideVals :
                      n = 1 \/ q[1][n - 1] <= q[2]}}

\* Two samples of unequal size: the smallest the test accepts and one three
\* times as long (75 pairs, so that delta moves in steps of 1/75).
InitMWWide ==
    /\ group_a \in NonDecreasingWide(MinGroupSize)
    /\ group_b \in NonDecreasingWide(3 * MinGroupSize)
    /\ HAS_SCIPY \in BOOLEAN
    /\ mw = Pending
    /\ IdleStats
    /\ IdleParse
    /\ IdleCallers

SpecMWWide == InitMWWide /\ [][MannWhitney]_vars

(***************************************************************************)
(* parse_float                                                             *)
(*                                                                         *)
(* A token is None (an absent CSV field) or a text, a sequence of          *)
(* one-character strings.  float() is modelled by its grammar: an optional *)
(* sign, then "inf", "infinity" or "nan" in any case, or decimal digits    *)
(* with at most one point and an optional exponent.  A finite result is    *)
(* the decimal m * 10^e10 with m carrying no trailing zero, so that equal  *)
(* numbers written differently ("1.50", "1.5") are equal values.  A        *)
(* literal beyond the range of a double converts to inf, one below it to 0.*)
(***************************************************************************)
NoneToken == [kind |-> "None"]
Text(s) == [kind |-> "str", text |-> s]

Digits == <<"0", "1", "2", "3", "4", "5", "6", "7", "8", "9">>
IsDigit(c) == \E i \in DOMAIN Digits : Digits[i] = c
DigitVal(c) == (CHOOSE i \in DOMAIN Digits : Digits[i] = c) - 1
AllDigits(s) == \A i \in DOMAIN s : IsDigit(s[i])

RECURSIVE DigitsToInt(_)
DigitsToInt(s) ==
    IF s = <<>> THEN 0
    ELSE 10 * DigitsToInt(SubSeq(s, 1, Len(s) - 1)) + DigitVal(s[Len(s)])

Lower(c) ==
    CASE c = "I" -> "i" [] c = "N" -> "n" [] c = "F" -> "f" [] c = "A" -> "a"
      [] c = "T" -> "t" [] c = "Y" -> "y" [] c = "E" -> "e" [] OTHER -> c
LowerSeq(s) == [i \in DOMAIN s |-> Lower(s[i])]

\* str.strip(): leading and trailing whitespace removed
RECURSIVE LStrip(_)
LStrip(s) == IF s # <<>> /\ Head(s) = " " THEN LStrip(Tail(s)) ELSE s
RECURSIVE RStrip(_)
RStrip(s) ==
    IF s # <<>> /\ s[Len(s)] = " " THEN RStrip(SubSeq(s, 1, Len(s) - 1)) ELSE s
Strip(s) == RStrip(LStrip(s))

\* val.endswith(suffix)
EndsWith(s, suffix) ==
    /\ Len(s) >= Len(suffix)
    /\ SubSeq(s, Len(s) - Len(suffix) + 1, Len(s)) = suffix

\* The unit suffixes, in the order of the list in the source.
Suffixes ==
    << <<" ", "m", "s">>, <<"m", "s">>,
       <<" ", "M", "B", "/", "s">>, <<"M", "B", "/", "s">>,
       <<" ", "M", "B">>, <<"M", "B">>,
       <<" ", "K", "B">>, <<"K", "B">>,
       <<" ", "M", "i", "B">>, <<"M", "i", "B">>,
       <<" ", "G", "i", "B">>, <<"G", "i", "B">>,
       <<"%">> >>

\* The strings that mean "missing": '', 'N/A', 'null', 'None'.
Sentinels ==
    { <<>>, <<"N", "/", "A">>, <<"n", "u", "l", "l">>, <<"N", "o", "n", "e">> }

\* val[:-len(suffix)].strip()
CutSuffix(s, suffix) == Strip(SubSeq(s, 1, Len(s) - Len(suffix)))

\* for suffix in [...]: if val.endswith(suffix): val = val[:-len(suffix)].strip()
\* The loop has no break: every suffix of the list is tried in turn on the
\* text as the earlier iterations left it.
RECURSIVE StripSuffixesFrom(_, _)
StripSuffixesFrom(s, i) ==
    IF i > Len(Suffixes) THEN s
    ELSE StripSuffixesFrom(
            IF EndsWith(s, Suffixes[i]) THEN CutSuffix(s, Suffixes[i]) ELSE s,
            i + 1)
\* No suffix removed at all.
StripNothing(s) == s
StripSuffixes(s) == StripSuffixesFrom(s, 1)

RECURSIVE NumDigits(_)
NumDigits(m) == IF m < 10 THEN 1 ELSE 1 + NumDigits(m \div 10)

RECURSIVE Pow10(_)
Pow10(k) == IF k = 0 THEN 1 ELSE 10 * Pow10(k - 1)

\* m * 10^e with the trailing zeros of m moved into the exponent.
RECURSIVE Normalize(_, _)
Normalize(m, e) ==
    IF m = 0 THEN <<0, 0>>
    ELSE IF m % 10 = 0 THEN Normalize(m \div 10, e + 1)
    ELSE <<m, e>>

Finite(neg, m, e10) ==
    [kind |-> "float", cls |-> "finite", neg |-> neg /\ m # 0, m |-> m, e10 |-> e10]
Infinite(neg) == [kind |-> "float", cls |-> "inf", neg |-> neg, m |-> 0, e10 |-> 0]
NaN == [kind |-> "float", cls |-> "nan", neg |-> FALSE, m |-> 0, e10 |-> 0]

\* The double nearest to m * 10^e (m of at most 9 digits): inf above the
\* largest double 1.7976931348623157e308, 0.0 below half the smallest
\* 4.9e-324, the decimal itself otherwise.
ToDouble(neg, m, e) ==
    LET n == Normalize(m, e)
        lead == NumDigits(n[1]) + n[2] - 1
        top == n[1] * Pow10(9 - NumDigits(n[1]))
    IN  IF n[1] = 0 THEN Finite(neg, 0, 0)
        ELSE IF lead > 308 \/ (lead = 308 /\ top > 179769313) THEN Infinite(neg)
        ELSE IF lead < -324 THEN Finite(neg, 0, 0)
        ELSE Finite(neg, n[1], n[2])

\* Index of the first element of s in the set cs, 0 if there is none.
FirstIn(s, cs) ==
    IF \E i \in DOMAIN s : s[i] \in cs
    THEN CHOOSE i \in DOMAIN s : s[i] \in cs /\ \A j \in 1..(i - 1) : s[j] \notin cs
    ELSE 0

\* digits [ "." digits ] | "." digits, at least one digit: <<ok, m, frac>>
Mantissa(s) ==
    LET dot == FirstIn(s, {"."})
        ip == IF dot = 0 THEN s ELSE SubSeq(s, 1, dot - 1)
        fp == IF dot = 0 THEN <<>> ELSE SubSeq(s, dot + 1, Len(s))
    IN  IF AllDigits(ip) /\ AllDigits(fp) /\ Len(ip) + Len(fp) >= 1
        THEN <<TRUE, DigitsToInt(ip \o fp), Len(fp)>>
        ELSE <<FALSE, 0, 0>>

\* [ "+" | "-" ] digits: <<ok, value>>
Exponent(s) ==
    LET signed == s # <<>> /\ s[1] \in {"+", "-"}
        ds == IF signed THEN Tail(s) ELSE s
    IN  IF ds # <<>> /\ AllDigits(ds)
        THEN <<TRUE, IF signed /\ s[1] = "-" THEN -DigitsToInt(ds) ELSE DigitsToInt(ds)>>
        ELSE <<FALSE, 0>>

\* float(val) for a text without surrounding whitespace; ValueError is NoResult
ToFloat(s) ==
    LET signed == s # <<>> /\ s[1] \in {"+", "-"}
        neg == signed /\ s[1] = "-"
        body == IF signed THEN Tail(s) ELSE s
        low == LowerSeq(body)
        epos == FirstIn(low, {"e"})
        mant == Mantissa(IF epos = 0 THEN body ELSE SubSeq(body, 1, epos - 1))
        expo == IF epos = 0 THEN <<TRUE, 0>>
                ELSE Exponent(SubSeq(body, epos + 1, Len(body)))
    IN  IF low \in { <<"i", "n", "f">>, <<"i", "n", "f", "i", "n", "i", "t", "y">> }
        THEN Infinite(neg)
        ELSE IF low = <<"n", "a", "n">> THEN NaN
        ELSE IF mant[1] /\ expo[1] THEN ToDouble(neg, mant[2], expo[2] - mant[3])
        ELSE NoResult

parse_float(val) ==
    IF val.kind = "None" THEN NoResult
    ELSE LET s == Strip(val.text)
         IN  IF s \in Sentinels THEN NoResult
             ELSE ToFloat(StripSuffixes(s))

\* Token bodies: numbers, the missing-data sentinels, non-numbers.
TokenBodies ==
    { <<>>, <<"5">>, <<"4", "2", ".", "5">>, <<"6", "9", "5", ".", "2">>,
      <<"-", "1">>, <<".", "5">>, <<"1", "e", "3">>, <<"1", ".", "5", "0">>,
      <<"N", "/", "A">>, <<"n", "u", "l", "l">>, <<"N", "o", "n", "e">>,
      <<"g", "a", "r", "b", "a", "g", "e">>,
      <<"i", "n", "f">>, <<"n", "a", "n">>, <<"1", "e", "9", "9", "9">> }

\* Trailing pieces: each unit suffix, a blank, a letter.
TokenPieces == {Suffixes[i] : i \in DOMAIN Suffixes} \cup { <<" ">>, <<"x">> }

RECURSIVE Tails(_)
Tails(k) ==
    IF k = 0 THEN {<<>>}
    ELSE Tails(k - 1) \cup {t \o p : t \in Tails(k - 1), p \in TokenPieces}

\* A CSV field: absent, or a body followed by at most MaxPieces pieces,
\* possibly after a leading blank.
InitParse ==
    /\ token \in {NoneToken}
                 \cup {Text(lead \o b \o t) :
                         lead \in {<<>>, <<" ">>}, b \in TokenBodies, t \in Tails(MaxPieces)}
    /\ parsed = Pending
    /\ IdleStats
    /\ IdleMW
    /\ IdleCallers

\* val = parse_float(row.get(field))
ParseFloat ==
    /\ parsed = Pending
    /\ parsed' = parse_float(token)
    /\ UNCHANGED <<values, stats, group_a, group_b, HAS_SCIPY, mw, token, callerVars>>

SpecParse == InitParse /\ [][ParseFloat]_vars

(***************************************************************************)
(* The nine analyzers, each on the rows of its own file.                   *)
(*                                                                         *)
(* A row carries a grouping key (the image, the mode or the (image, mode)  *)
(* pair of the source, whichever the analyzer groups by) and two value     *)
(* fields; an analyzer that reads one column ignores val2, one that does   *)
(* not group ignores key.  A result records which buckets check_all_zero   *)
(* flagged and the dictionary the analyzer returned.  The significance     *)
(* lines of tests 4 and 8 are output only and need 5 values a side, more   *)
(* than MaxRows allows, so they print nothing here.                        *)
(***************************************************************************)
GroupKeys == {"k1", "k2"}
Row(k, v, v2) == [key |-> k, val |-> v, val2 |-> v2]

\* A parsed value in hundredths.
Hundredths(f) == (IF f.neg THEN -1 ELSE 1) * f.m * Pow10(f.e10 + 2)
ValueOf(tok) ==
    LET f == parse_float(tok)
    IN  IF f = NoResult THEN None ELSE Some(Hundredths(f))
\* The rows with parse_float applied to their value fields.
ParsedRows(rs) ==
    [i \in DOMAIN rs |-> Row(rs[i].key, ValueOf(rs[i].val), ValueOf(rs[i].val2))]

\* [val[i] for i, r in enumerate(rows) if keep[i]]: keep and val give, for
\* each row index, whether the row is collected and what is collected.
Sample(rs, keep, val) ==
    LET idx == SelectSeq([i \in DOMAIN rs |-> i], LAMBDA i : keep[i])
    IN  [j \in DOMAIN idx |-> val[idx[j]]]

\* the parsed value field of each row
Field(rs) == [i \in DOMAIN rs |-> rs[i].val]

\* Every parsed value appended to every key.
BucketAnyKey(rs, k) ==
    Sample(rs, [i \in DOMAIN rs |-> rs[i].val # None], Field(rs))
\* groups[key]: val = parse_float(row.get(field)); if val is not None: append
Bucket(rs, k) ==
    Sample(rs, [i \in DOMAIN rs |-> rs[i].key = k /\ rs[i].val # None], Field(rs))
\* ... if val is not None and val > 0 (test 8)
PositiveBucket(rs, k) ==
    Sample(rs, [i \in DOMAIN rs |-> rs[i].key = k /\ rs[i].val # None /\ rs[i].val[1] > 0],
           Field(rs))
\* [v for v in (parse_float(r.get(field)) for r in rows) if v is not None]
Column(rs) ==
    Sample(rs, [i \in DOMAIN rs |-> rs[i].val # None], Field(rs))
\* [abs(v) for v in (parse_float(r.get('variance_pct')) ...) if v is not None]
AbsColumn2(rs) ==
    Sample(rs, [i \in DOMAIN rs |-> rs[i].val2 # None],
           [i \in DOMAIN rs |->
               IF rs[i].val2 = None THEN None
               ELSE Some(IF rs[i].val2[1] < 0 THEN -rs[i].val2[1] ELSE rs[i].val2[1])])
\* rows whose two fields both parse (test 9)
BothParse(r) == r.val # None /\ r.val2 # None

\* if values and all(v == 0.0 for v in values): ... return True
check_all_zero(values_) ==
    /\ values_ # <<>>
    /\ \A i \in DOMAIN values_ : values_[i] = Some(0)

Done(flagged, all_stats) ==
    [kind |-> "done", flagged |-> flagged, all_stats |-> all_stats]
NoStats == [k \in {} |-> NoResult]

\* The buckets a grouping analyzer built: keys with at least one value.
Groups(rs) == {k \in GroupKeys : Bucket(rs, k) # <<>>}

\* Tests 1 and 6: one summary per key.
analyze_startup_latency(rs, ups) ==
    Done({}, [k \in Groups(rs) |-> compute_stats(Bucket(rs, k), ups[k])])
analyze_pull_time(rs, ups) ==
    Done({}, [k \in Groups(rs) |-> compute_stats(Bucket(rs, k), ups[k])])

\* Tests 4 and 5: an all-zero bucket is warned about and skipped.
analyze_write_performance(rs, ups) ==
    LET zero == {k \in Groups(rs) : check_all_zero(Bucket(rs, k))}
    IN  Done(zero, [k \in Groups(rs) \ zero |-> compute_stats(Bucket(rs, k), ups[k])])
analyze_metadata(rs, ups) ==
    LET zero == {k \in Groups(rs) : check_all_zero(Bucket(rs, k))}
    IN  Done(zero, [k \in Groups(rs) \ zero |-> compute_stats(Bucket(rs, k), ups[k])])

\* Test 8: only positive values are kept; nothing kept is "No valid data".
analyze_network_latency(rs, ups) ==
    LET kept == {k \in GroupKeys : PositiveBucket(rs, k) # <<>>}
    IN  Done({}, [k \in kept |-> compute_stats(PositiveBucket(rs, k), ups[k])])

\* Test 2: one bucket; all zero returns {} after the warning.
analyze_copyup(rs, ups) ==
    IF check_all_zero(Column(rs)) THEN Done({"k1"}, NoStats)
    ELSE IF Column(rs) = <<>> THEN Done({}, NoStats)
    ELSE Done({}, [k \in {"k1"} |-> compute_stats(Column(rs), ups[k])])

\* Test 7: one bucket; no values is "skipped on this platform".
analyze_namespace_overhead(rs, ups) ==
    IF Column(rs) = <<>> THEN Done({}, NoStats)
    ELSE Done({}, [k \in {"k1"} |-> compute_stats(Column(rs), ups[k])])

\* Test 3: measured_pct (k1) and |variance_pct| (k2), each summarized if
\* it has values.
analyze_cpu_throttling(rs, ups) ==
    LET have == {k \in GroupKeys : (IF k = "k1" THEN Column(rs) ELSE AbsColumn2(rs)) # <<>>}
    IN  Done({}, [k \in have |->
                    compute_stats(IF k = "k1" THEN Column(rs) ELSE AbsColumn2(rs), ups[k])])

\* Test 9: per-container (k1) and total (k2) memory of the rows whose two
\* fields both parse; rows are in one format, so the fallback columns of
\* the other format are absent and add nothing.
analyze_memory_efficiency(rs, ups) ==
    LET both == [i \in DOMAIN rs |-> BothParse(rs[i])]
        per_container == Sample(rs, both, Field(rs))
        totals == Sample(rs, both, [i \in DOMAIN rs |-> rs[i].val2])
    IN  IF per_container = <<>> THEN Done({}, NoStats)
        ELSE Done({}, [k \in GroupKeys |->
                         compute_stats(IF k = "k1" THEN per_container ELSE totals, ups[k])])

Analyzers == 1..9
Grouping == {1, 4, 5, 6, 8}
TwoColumns == {3, 9}

\* The analyzer main calls as test i.
Analyzer(i, rs, ups) ==
    CASE i = 1 -> analyze_startup_latency(rs, ups)
      [] i = 2 -> analyze_copyup(rs, ups)
      [] i = 3 -> analyze_cpu_throttling(rs, ups)
      [] i = 4 -> analyze_write_performance(rs, ups)
      [] i = 5 -> analyze_metadata(rs, ups)
      [] i = 6 -> analyze_pull_time(rs, ups)
      [] i = 7 -> analyze_namespace_overhead(rs, ups)
      [] i = 8 -> analyze_network_latency(rs, ups)
      [] i = 9 -> analyze_memory_efficiency(rs, ups)

\* Value fields of a file: small measurements with zeros, or the sizes of
\* real startup times in the startup file; "N/A" is a missing value.  A
\* second column, where the analyzer reads one, holds zero or is missing.
SmallTokens == {Text(<<"0">>), Text(<<"0", ".", "0", "3">>), Text(<<"N", "/", "A">>)}
SmallSeconds == {Text(<<"0">>), Text(<<"N", "/", "A">>)}
StartupTokens ==
    {Text(<<"1", "0", "0">>), Text(<<"1", "0", "5">>), Text(<<"1", "1", "0">>),
     Text(<<"N", "/", "A">>)}

RowsOver(i, toks, toks2) ==
    LET keys == IF i \in Grouping THEN GroupKeys ELSE {"k1"}
        seconds == IF i \in TwoColumns THEN toks2 ELSE {NoneToken}
        choice == {Row(k, v, v2) : k \in keys, v \in toks, v2 \in seconds}
    IN  UNION {[1..n -> choice] : n \in 0..MaxRows}

InitAnalyze ==
    /\ analyzer \in Analyzers
    /\ rows \in RowsOver(analyzer, SmallTokens, SmallSeconds)
                \cup (IF analyzer = 1 THEN RowsOver(1, StartupTokens, {NoneToken}) ELSE {})
    /\ result = Pending
    /\ IdleStats
    /\ IdleMW
    /\ IdleParse
    /\ IdleMain
    /\ IdleSweep
    /\ IdleOrder
    /\ IdleTable

\* all_stats = analyze_*(results_dir), the file being there
Analyze ==
    /\ result = Pending
    /\ LET prs == ParsedRows(rows)
       IN  \E ups \in [GroupKeys -> BOOLEAN] : result' = Analyzer(analyzer, prs, ups)
    /\ UNCHANGED <<values, stats, group_a, group_b, HAS_SCIPY, mw, token, parsed, analyzer, rows,
                   mainVars, sweepVars, orderVars, tableVars>>

SpecAnalyze == InitAnalyze /\ [][Analyze]_vars

(***************************************************************************)
(* cross_platform_comparison: the tables of the other tests.               *)
(*                                                                         *)
(* For copy-up, CPU throttling and namespace creation the function reads   *)
(* the file the analyzer of that test read and prints one line per         *)
(* directory.  main calls it after the analyzers of every directory, so    *)
(* the line of a file follows the analyzer's result for the same rows.     *)
(* compute_stats being a function, the same sample gives the summary the   *)
(* analyzer got; another sample rounds its own ties.                       *)
(***************************************************************************)
\* comparisons: the tests with a table, by the number of their analyzer
\* (02-copyup-overhead.csv, 03-cpu-throttling.csv, 07-namespace-overhead.csv)
Compared == {2, 3, 7}

\* [v for v in (parse_float(r.get(field)) for r in rows)
\*  if v is not None and v > 0]
PositiveColumn(rs) ==
    Sample(rs, [i \in DOMAIN rs |-> rs[i].val # None /\ rs[i].val[1] > 0], Field(rs))

\* "N/A (no valid data)"
NoValidData == [kind |-> "N/A"]

\* the line of one directory in the table of test 'analyzer'
CompareTable ==
    /\ analyzer \in Compared
    /\ result # Pending
    /\ table = Pending
    /\ LET prs == ParsedRows(rows)
           values_ == PositiveColumn(prs)
       IN  IF values_ = <<>> THEN table' = NoValidData
           ELSE IF values_ = Column(prs) /\ "k1" \in DOMAIN result.all_stats
                THEN table' = result.all_stats["k1"]
                ELSE \E up \in BOOLEAN : table' = compute_stats(values_, up)
    /\ UNCHANGED <<values, stats, group_a, group_b, HAS_SCIPY, mw, token, parsed, analyzer, rows,
                   result, mainVars, sweepVars, orderVars>>

\* Value fields of a compared file: zero, a positive and a negative
\* measurement, or a missing value.
SignedTokens == SmallTokens \cup {Text(<<"-", "0", ".", "0", "3">>)}

InitTables ==
    /\ analyzer \in Compared
    /\ rows \in RowsOver(analyzer, SignedTokens, SmallSeconds)
    /\ result = Pending
    /\ IdleStats
    /\ IdleMW
    /\ IdleParse
    /\ IdleMain
    /\ IdleSweep
    /\ IdleOrder
    /\ IdleTable

SpecTables == InitTables /\ [][Analyze \/ CompareTable]_vars

(***************************************************************************)
(* main                                                                    *)
(*                                                                         *)
(* The run is followed call by call.  A named directory is absent or holds *)
(* each of the nine files in one of four conditions: missing, complete     *)
(* ("ok"), without its value column ("novalue") or without a column the    *)
(* analyzer groups by ("nogroup").  A file that is there has at least one  *)
(* row whose value parses (and is positive) when its value column is       *)
(* there.  An uncaught exception ends the interpreter with status 1.       *)
(***************************************************************************)
Dirs == {"p1", "p2"}
NoDir == [isdir |-> FALSE, files |-> <<>>]
Dir(files) == [isdir |-> TRUE, files |-> files]
Compare == "--compare"

\* A missing file ends the run like a file without its grouping column.
AnalyzerOutcomeMissingRaises(d, i) ==
    IF ~fs[d].isdir \/ fs[d].files[i] \in {"missing", "nogroup"} THEN "raised"
    ELSE IF fs[d].files[i] = "novalue" THEN "empty"
    ELSE "summary"

\* What analyzer i does on directory d.
\*   os.path.exists(filepath) false: the [SKIP] notice and {};
\*   no value column: every row.get(field) is None, nothing is collected, {};
\*   no grouping column: row['image'] or row['mode'] raises KeyError at the
\*   first row whose value parses.
AnalyzerOutcome(d, i) ==
    IF ~fs[d].isdir \/ fs[d].files[i] = "missing" THEN "skip"
    ELSE IF fs[d].files[i] = "nogroup" THEN "raised"
    ELSE IF fs[d].files[i] = "novalue" THEN "empty"
    ELSE "summary"

\* sys.argv[1] == '--compare'
CompareMode == argv # <<>> /\ argv[1] = Compare
\* The directories the analyzers are run on, in order.
TargetDirs == IF CompareMode THEN Tail(argv) ELSE <<argv[1]>>

Exit(status, text) ==
    /\ pc' = "exited"
    /\ exit_status' = Some(status)
    /\ message' = text

\* os.path.isdir(results_dir)
IsDir(d) == fs[d].isdir

\* main, up to the first analyzer call: the argument checks.
MainStart ==
    /\ pc = "start"
    /\ IF Len(argv) < 1 THEN Exit(1, "usage")
       ELSE IF argv[1] = Compare
            THEN IF Len(Tail(argv)) < 2 THEN Exit(1, "need at least 2")
                 ELSE pc' = "analyze" /\ UNCHANGED <<message, exit_status>>
       ELSE IF ~IsDir(argv[1]) THEN Exit(1, "not a directory")
       ELSE pc' = "analyze" /\ UNCHANGED <<message, exit_status>>
    /\ UNCHANGED <<argv, fs, calls>>

\* The next analyzer call: tests 1 to 9 on each target directory in turn.
RunAnalyzer ==
    /\ pc = "analyze"
    /\ LET d == TargetDirs[(Len(calls) \div 9) + 1]
           i == (Len(calls) % 9) + 1
           o == AnalyzerOutcome(d, i)
       IN  /\ calls' = Append(calls, [dir |-> d, test |-> i, outcome |-> o])
           /\ IF o = "raised" THEN Exit(1, "traceback")
              ELSE /\ pc' = IF Len(calls) + 1 < 9 * Len(TargetDirs) THEN "analyze"
                            ELSE IF CompareMode THEN "tables" ELSE "complete"
                   /\ UNCHANGED <<message, exit_status>>
    /\ UNCHANGED <<argv, fs>>

\* cross_platform_comparison(platform_dirs); generate_latex_table(platform_dirs)
\* Both read the startup files with row['image'], which analyze_startup_latency
\* has read without raising by now.
CompareTables ==
    /\ pc = "tables"
    /\ pc' = "exited"
    /\ exit_status' = Some(0)
    /\ UNCHANGED <<argv, fs, calls, message>>

\* print_header("ANALYSIS COMPLETE") ... and the normal end of the process
Complete ==
    /\ pc = "complete"
    /\ pc' = "exited"
    /\ exit_status' = Some(0)
    /\ UNCHANGED <<argv, fs, calls, message>>

Statuses(i) ==
    {"missing", "ok", "novalue"} \cup (IF i \in Grouping THEN {"nogroup"} ELSE {})
BadFiles(files) == {i \in Analyzers : files[i] \in {"novalue", "nogroup"}}
FileSets ==
    {files \in [Analyzers -> {"missing", "ok", "novalue", "nogroup"}] :
        /\ \A i \in Analyzers : files[i] \in Statuses(i)
        /\ Cardinality(BadFiles(files)) <= MaxBadFiles}
AllOk == [i \in Analyzers |-> "ok"]
NoImageColumn == [i \in Analyzers |-> IF i = 1 THEN "nogroup" ELSE "ok"]

\* One directory in any condition analyzed alone, or any of the other
\* command lines over directories that are absent, complete, or complete
\* but for the image column of the startup file.
InitMain ==
    /\ \/ /\ argv = <<"p1">>
          /\ fs \in {[d \in Dirs |-> IF d = "p1" THEN x ELSE NoDir] :
                        x \in {NoDir} \cup {Dir(f) : f \in FileSets}}
       \/ /\ argv \in { <<>>, <<Compare>>, <<Compare, "p1">>, <<Compare, "p1", "p2">>,
                        <<Compare, "p2", "p1">>, <<"p2">> }
          /\ fs \in [Dirs -> {NoDir, Dir(AllOk), Dir(NoImageColumn)}]
    /\ pc = "start"
    /\ calls = <<>>
    /\ message = ""
    /\ exit_status = None
    /\ IdleStats
    /\ IdleMW
    /\ IdleParse
    /\ IdleAnalyze
    /\ IdleSweep
    /\ IdleOrder
    /\ IdleTable

NextMain ==
    /\ (MainStart \/ RunAnalyzer \/ CompareTables \/ Complete)
    /\ UNCHANGED <<values, stats, group_a, group_b, HAS_SCIPY, mw, token, parsed,
                   analyzer, rows, result, sweepVars, orderVars, tableVars>>

SpecMain == InitMain /\ [][NextMain]_vars

(***************************************************************************)
(* cross_platform_comparison: the startup data and the significance sweep. *)
(*                                                                         *)
(* A path is its sequence of components, a trailing slash being a last     *)
(* empty component, so "x/b" and "x/b/" are two paths of one directory.    *)
(* The startup data of a directory is absent (no file) or gives, for some  *)
(* images, the warm-start sample; cold rows take no part.  The tables      *)
(* printed after the sweep read other files and do not feed it.            *)
(***************************************************************************)
Directories == { <<"x", "a">>, <<"y", "a">>, <<"x", "b">> }
Paths == Directories \cup { <<"x", "b", "">> }
DirOf(path) == IF path[Len(path)] = "" THEN SubSeq(path, 1, Len(path) - 1) ELSE path
\* os.path.basename(pdir)
Basename(path) == path[Len(path)]

\* for image_label in ['alpine', 'nginx', 'python_3.11-slim']
ImageLabels == <<"alpine", "nginx", "python_3.11-slim">>
NoFile == [kind |-> "nofile"]
Loaded(groups) == [kind |-> "groups", warm |-> groups]

\* os.path.exists(os.path.join(pdir, "01-startup-latency.csv"))
HasStartup(path) == startup[DirOf(path)].kind = "groups"

\* platform_startup[pname] = groups, a later path of the same name replacing
\* an earlier one: the path whose file each name ends up holding.
PlatformStartup ==
    LET names == {Basename(platform_dirs[i]) :
                     i \in {j \in DOMAIN platform_dirs : HasStartup(platform_dirs[j])}}
        last(nm) == CHOOSE i \in DOMAIN platform_dirs :
                        /\ Basename(platform_dirs[i]) = nm
                        /\ HasStartup(platform_dirs[i])
                        /\ \A j \in DOMAIN platform_dirs :
                              (Basename(platform_dirs[j]) = nm /\ HasStartup(platform_dirs[j]))
                                 => j <= i
    IN  [nm \in names |-> platform_dirs[last(nm)]]

\* sorted(...) of the platform names, as the sequence in string order
SortNames(S) == SortSeq(
    CHOOSE s \in [1..Cardinality(S) -> S] : \A nm \in S : \E i \in DOMAIN s : s[i] = nm,
    LAMBDA m, n : \/ m = "" /\ n # ""
                  \/ m = "a" /\ n = "b")

\* for i in range(len(platforms)): for j in range(i + 1, len(platforms))
RECURSIVE PairsFrom(_, _, _)
PairsFrom(i, j, n) ==
    IF i >= n THEN <<>>
    ELSE IF j > n THEN PairsFrom(i + 1, i + 2, n)
    ELSE << <<i, j>> >> \o PairsFrom(i, j + 1, n)

\* The tests of one image: mann_whitney_u on each pair of platforms that
\* have (image_label, 'warm'), a line being printed if there is a result.
ImageTests(img, ps, has_scipy, up) ==
    LET image_data == {nm \in DOMAIN ps : img \in DOMAIN startup[DirOf(ps[nm])].warm}
        platforms == SortNames(image_data)
        pairs == IF has_scipy /\ Cardinality(image_data) >= 2
                 THEN PairsFrom(1, 2, Len(platforms)) ELSE <<>>
        sample(nm) == startup[DirOf(ps[nm])].warm[img]
    IN  [q \in DOMAIN pairs |->
            LET p1 == platforms[pairs[q][1]]
                p2 == platforms[pairs[q][2]]
            IN  [image |-> img, p1 |-> p1, p2 |-> p2,
                 dir1 |-> DirOf(ps[p1]), dir2 |-> DirOf(ps[p2]),
                 result |-> mann_whitney_u(sample(p1), sample(p2), has_scipy, up)]]

cross_platform_comparison(has_scipy, up) ==
    LET ps == PlatformStartup
    IN  IF Cardinality(DOMAIN ps) < 2
        THEN [kind |-> "need2", platform_startup |-> ps, tests |-> <<>>]
        ELSE [kind |-> "tables", platform_startup |-> ps,
              tests |-> ImageTests(ImageLabels[1], ps, has_scipy, up)
                        \o ImageTests(ImageLabels[2], ps, has_scipy, up)
                        \o ImageTests(ImageLabels[3], ps, has_scipy, up)]

\* Warm-start samples: two of five values, one of four.
WarmA == <<0, 1, 2, 3, 3>>
WarmB == <<1, 2, 2, 3, 3>>
WarmShort == <<0, 1, 2, 3>>
StartupData ==
    { NoFile,
      Loaded([img \in {"alpine"} |-> WarmA]),
      Loaded([img \in {"alpine"} |-> WarmShort]),
      Loaded([img \in {"alpine", "nginx"} |-> IF img = "alpine" THEN WarmB ELSE WarmA]) }

InitSweep ==
    /\ platform_dirs \in UNION {[1..k -> Paths] : k \in 2..MaxDirs}
    /\ startup \in [Directories -> StartupData]
    /\ HAS_SCIPY \in BOOLEAN
    /\ sweep = Pending
    /\ group_a = <<>>
    /\ group_b = <<>>
    /\ mw = Pending
    /\ IdleStats
    /\ IdleParse
    /\ IdleAnalyze
    /\ IdleMain
    /\ IdleOrder
    /\ IdleTable

\* cross_platform_comparison(platform_dirs)
Sweep ==
    /\ sweep = Pending
    /\ \E up \in BOOLEAN : sweep' = cross_platform_comparison(HAS_SCIPY, up)
    /\ UNCHANGED <<values, stats, group_a, group_b, HAS_SCIPY, mw, token, parsed,
                   analyzer, rows, result, mainVars, platform_dirs, startup, orderVars, tableVars>>

SpecSweep == InitSweep /\ [][Sweep]_vars

(***************************************************************************)
(* Claims about compute_stats.                                             *)
(***************************************************************************)
HasStats == stats # Pending /\ stats.kind = "stats"
Kept == NotNone(values)
Abs(x) == IF x < 0 THEN -x ELSE x

\* C1 as stated: in every summary the reported fields satisfy
\* ci_lower = mean - ci_95 and ci_upper = mean + ci_95 exactly.
C1_BoundsExact ==
    HasStats => /\ stats.ci_lower = stats.mean - stats.ci_95
                /\ stats.ci_upper = stats.mean + stats.ci_95

\* C1 amended: ci_lower and ci_upper are roundings of the unrounded
\* mean -/+ half-width, so they agree with the reported mean -/+ ci_95 up to
\* one unit of the second decimal, and the interval encloses the mean.
C1_BoundsWithinOneUnit ==
    HasStats => /\ Abs(stats.ci_lower - (stats.mean - stats.ci_95)) <= 1
                /\ Abs(stats.ci_upper - (stats.mean + stats.ci_95)) <= 1
                /\ stats.ci_lower <= stats.mean
                /\ stats.mean <= stats.ci_upper

\* A summary whose lower bound is one hundredth off the reported difference.
C1_Witness ==
    /\ HasStats
    /\ stats.ci_95 > 0
    /\ stats.ci_lower = stats.mean - stats.ci_95 + 1

\* C2: the median is the element at index n // 2 of the sorted values: an
\* element of the list with at most n // 2 entries below it and more than
\* n // 2 entries not above it (so for even n the upper-middle element).
C2_MedianIsUpperMiddle ==
    HasStats =>
        LET xs == Kept
            k == Len(xs) \div 2
            below == Cardinality({i \in DOMAIN xs : xs[i] < stats.median})
            upto == Cardinality({i \in DOMAIN xs : xs[i] <= stats.median})
        IN  /\ \E i \in DOMAIN xs : xs[i] = stats.median
            /\ below <= k
            /\ k < upto

\* The list [1, 2, 3, 4] summarised with median 3.
C2_Witness ==
    /\ HasStats
    /\ values = <<Some(1), Some(2), Some(3), Some(4)>>
    /\ stats.median = 3

\* The multiplier table as the specification states it, in thousandths
\* reduced to lowest terms, with disjoint and exhaustive brackets.
BracketTable(n) ==
    CASE n < 10 -> <<347, 125>>
      [] 10 <= n /\ n < 20 -> <<1131, 500>>
      [] 20 <= n /\ n < 30 -> <<409, 200>>
      [] n >= 30 -> <<49, 25>>

\* k is the hundredth nearest to c * std / sqrt(n) for the sample xs, c = cf[1]/cf[2]:
\* (2k-1)*n <= 2n*c*std/sqrt(n) <= (2k+1)*n, compared by squares.
NearestToHalfWidth(k, cf, xs) ==
    LET n == Len(xs)
        d == NSumSqDev(xs)
        m1 == (2 * cf[1]) * (2 * cf[1])
        e == cf[2] * cf[2] * (n - 1)
        lo == (2 * k - 1) * n
        hi == (2 * k + 1) * n
    IN  IF n = 1 THEN k = 0
        ELSE /\ k >= 0
             /\ (k > 0 => LeqFrac(lo * lo, m1, d, e))
             /\ LeqFrac(d, e, hi * hi, m1)

\* C3: ci_95 is multiplier * std / sqrt(n) with the multiplier fixed by n
\* alone: 1.96 (n >= 30), 2.045 (20..29), 2.262 (10..19), 2.776 (n < 10).
C3_MultiplierByBracket ==
    HasStats => NearestToHalfWidth(stats.ci_95, BracketTable(stats.n), Kept)

\* A sample of 30 values (such as 15 times 0.00 and 15 times 1.00) whose
\* half-width 0.36 is the one 1.96 gives (2.045 would give 0.38).
C3_Witness ==
    /\ HasStats
    /\ stats.n = 30
    /\ stats.ci_95 = 36
    /\ ~NearestToHalfWidth(stats.ci_95, <<409, 200>>, Kept)

\* k is the hundredth nearest to sqrt(sum((x-mean)^2) / (n-1)).
NearestToSampleStd(k, xs) ==
    LET n == Len(xs)
        d == NSumSqDev(xs)
        e == n * (n - 1)
    IN  /\ k >= 0
        /\ (k > 0 => LeqFrac((2 * k - 1) * (2 * k - 1), 4, d, e))
        /\ LeqFrac(d, e, (2 * k + 1) * (2 * k + 1), 4)

\* C4: for n = 1, std = 0.0 and ci_95 = 0.0 and both bounds equal the mean;
\* for n > 1 std is the root of the squared deviations divided by n - 1.
C4_SingleValueAndBessel ==
    HasStats =>
        IF stats.n = 1
        THEN /\ stats.std = 0
             /\ stats.ci_95 = 0
             /\ stats.ci_lower = stats.mean
             /\ stats.ci_upper = stats.mean
        ELSE NearestToSampleStd(stats.std, Kept)

\* A one-value list summarised.
C4_Witness ==
    /\ HasStats
    /\ stats.n = 1
    /\ stats.mean = 3

\* C5: "no summary" is returned exactly when the list holds no value (empty
\* or only missing entries); otherwise n counts the non-missing entries.
C5_NoneIffNoValues ==
    stats # Pending =>
        LET present == {i \in DOMAIN values : values[i] # None}
        IN  /\ (stats.kind = "None") <=> (present = {})
            /\ stats.kind = "stats" =>
                  /\ stats.n = Cardinality(present)
                  /\ stats.n >= 1

\* A list of missing entries only, summarised as None.
C5_Witness ==
    /\ stats # Pending
    /\ stats.kind = "None"
    /\ Len(values) = 2

(***************************************************************************)
(* Claims about mann_whitney_u.                                            *)
(***************************************************************************)
HasMW == mw # Pending /\ mw.kind = "mw"
PairsGT == Cardinality({p \in (DOMAIN group_a) \X (DOMAIN group_b) :
                          group_a[p[1]] > group_b[p[2]]})
PairsLT == Cardinality({p \in (DOMAIN group_a) \X (DOMAIN group_b) :
                          group_a[p[1]] < group_b[p[2]]})
PairsEQ == Cardinality({p \in (DOMAIN group_a) \X (DOMAIN group_b) :
                          group_a[p[1]] = group_b[p[2]]})
NPairs == Len(group_a) * Len(group_b)

\* C6: the result is "not applicable" whenever either group has fewer than
\* 5 elements; a Significance Result exists only when both have at least 5.
C6_SmallGroupsNotApplicable ==
    mw # Pending =>
        /\ (Len(group_a) < 5 \/ Len(group_b) < 5) => mw = NoResult
        /\ mw.kind = "mw" => Len(group_a) >= 5 /\ Len(group_b) >= 5

\* The library is present, group A has 4 values, group B at least 5: None.
C6_Witness ==
    /\ mw = NoResult
    /\ HAS_SCIPY
    /\ Len(group_a) = 4
    /\ Len(group_b) >= 5

\* C7: the label follows |delta| with strict upper bounds 0.147, 0.33 and
\* 0.474, is the same for delta and -delta, and 0.147 itself is "small".
C7_LabelByAbsDelta ==
    /\ HasMW =>
          LET d == IF PairsGT >= PairsLT THEN PairsGT - PairsLT
                   ELSE PairsLT - PairsGT
          IN  /\ (1000 * d < 147 * NPairs) <=> mw.effect_size = "negligible"
              /\ (1000 * d >= 147 * NPairs /\ 100 * d < 33 * NPairs)
                   <=> mw.effect_size = "small"
              /\ (100 * d >= 33 * NPairs /\ 1000 * d < 474 * NPairs)
                   <=> mw.effect_size = "medium"
              /\ (1000 * d >= 474 * NPairs) <=> mw.effect_size = "large"
              /\ EffectSize(PairsLT - PairsGT, NPairs) = mw.effect_size
    /\ EffectSize(147, 1000) = "small"
    /\ EffectSize(-147, 1000) = "small"
    /\ EffectSize(146, 1000) = "negligible"

\* A negative delta of small magnitude, labelled "small".
C7_Witness ==
    /\ HasMW
    /\ PairsGT < PairsLT
    /\ mw.effect_size = "small"

\* C8 as stated: 'significant' is true exactly when the reported p_value
\* (rounded to 6 decimals) is below 0.05.
C8_SignificantIffReportedBelow ==
    HasMW => (mw.significant <=> mw.p_value = "<0.05")

\* z*z of the normal approximation from the pair counts:
\* 2*(max(U1,U2) - mu - 0.5) = |gt - lt| - 1.
C8ZNum == (IF PairsGT >= PairsLT THEN PairsGT - PairsLT ELSE PairsLT - PairsGT) - 1

\* C8 amended: 'significant' is true exactly when the unrounded p-value is
\* below 0.05; a reported p_value below 0.05 implies it, and a significant
\* result reports a p_value of at most 0.05.
C8_SignificantIffUnroundedBelow ==
    HasMW =>
        /\ mw.significant <=>
              /\ C8ZNum > 0
              /\ ~LeqFrac(3 * C8ZNum * C8ZNum
                            * (Len(group_a) + Len(group_b))
                            * (Len(group_a) + Len(group_b) - 1),
                          ZY(group_a, group_b), 387511, 100876)
        /\ mw.p_value = "<0.05" => mw.significant
        /\ mw.significant => mw.p_value \in {"<0.05", "=0.05"}

\* A significant result whose reported p_value is 0.05 (0.04999986 rounded).
C8_Witness ==
    /\ HasMW
    /\ mw.significant
    /\ mw.p_value = "=0.05"

\* C9: Cliff's delta is 2U/(n1*n2) - 1 with U counting pairs a > b as 1 and
\* ties as 1/2, i.e. (gt - lt)/(n1*n2), reported to the nearest thousandth;
\* it lies in [-1, 1], is -1 when all of A is below all of B, +1 when all of
\* A is above, and 0 when the groups are identical.
C9_CliffsDelta ==
    HasMW =>
        /\ mw.u_statistic = 50 * (2 * PairsGT + PairsEQ)
        /\ 2 * Abs(1000 * (PairsGT - PairsLT) - mw.cliffs_delta * NPairs) <= NPairs
        /\ mw.cliffs_delta >= -1000
        /\ mw.cliffs_delta <= 1000
        /\ PairsLT = NPairs => mw.cliffs_delta = -1000
        /\ PairsGT = NPairs => mw.cliffs_delta = 1000
        /\ group_a = group_b => mw.cliffs_delta = 0

\* Every value of A below every value of B: delta -1.
C9_Witness ==
    /\ HasMW
    /\ PairsLT = NPairs
    /\ mw.cliffs_delta = -1000

(***************************************************************************)
(* Claims about parse_float.                                               *)
(***************************************************************************)
\* Only the first suffix of the list that the text ends with is removed.
RECURSIVE StripFirstMatchFrom(_, _)
StripFirstMatchFrom(s, i) ==
    IF i > Len(Suffixes) THEN s
    ELSE IF EndsWith(s, Suffixes[i]) THEN CutSuffix(s, Suffixes[i])
    ELSE StripFirstMatchFrom(s, i + 1)

\* C10: suffix stripping is first match only: at most one suffix, the first
\* of the list that the token ends with, is removed before conversion, so a
\* number followed by two stacked suffixes ("5MBms") gives no value.
C10_FirstMatchOnly ==
    (parsed # Pending /\ token.kind = "str" /\ Strip(token.text) \notin Sentinels)
        => parsed = ToFloat(StripFirstMatchFrom(Strip(token.text), 1))

\* The decimal number a body denotes, read off its digits.
DecimalValue(b) ==
    CASE b = <<"5">> -> Finite(FALSE, 5, 0)
      [] b = <<"4", "2", ".", "5">> -> Finite(FALSE, 425, -1)
      [] b = <<"6", "9", "5", ".", "2">> -> Finite(FALSE, 6952, -1)
      [] b = <<"-", "1">> -> Finite(TRUE, 1, 0)
      [] b = <<".", "5">> -> Finite(FALSE, 5, -1)
      [] b = <<"1", "e", "3">> -> Finite(FALSE, 1, 3)
      [] b = <<"1", ".", "5", "0">> -> Finite(FALSE, 15, -1)
DecimalBodies ==
    { <<"5">>, <<"4", "2", ".", "5">>, <<"6", "9", "5", ".", "2">>, <<"-", "1">>,
      <<".", "5">>, <<"1", "e", "3">>, <<"1", ".", "5", "0">> }
NonNumberBodies ==
    { <<>>, <<"N", "/", "A">>, <<"n", "u", "l", "l">>, <<"N", "o", "n", "e">>,
      <<"g", "a", "r", "b", "a", "g", "e">> }
OneSuffixOrNone == {Suffixes[i] : i \in DOMAIN Suffixes} \cup {<<>>}
Blanks == {<<>>, <<" ">>}
\* A text with no digit is a number only if it spells inf or nan.
NoDigit(s) == \A i \in DOMAIN s : s[i] \notin {Digits[d] : d \in DOMAIN Digits}
SpellsInfOrNan(s) ==
    \E i \in DOMAIN s : i + 2 <= Len(s) /\ SubSeq(s, i, i + 2) \in { <<"i", "n", "f">>, <<"n", "a", "n">> }

\* C11: a decimal number optionally followed by one recognized unit suffix
\* parses to that number ("42.5 ms" to 42.5, "695.2MB/s" to 695.2); the
\* empty string, the sentinels and text that is no number after suffix
\* stripping ("garbage") give no value.
C11_NumberWithOneSuffix ==
    (parsed # Pending /\ token.kind = "str") =>
        /\ \A b \in DecimalBodies, s \in OneSuffixOrNone, lead \in Blanks :
              token.text = lead \o b \o s => parsed = DecimalValue(b)
        /\ token.text \in {lead \o b \o s :
                               lead \in Blanks, b \in NonNumberBodies, s \in OneSuffixOrNone}
              => parsed = NoResult
        /\ (NoDigit(token.text) /\ ~SpellsInfOrNan(token.text)) => parsed = NoResult
C11_Witness ==
    /\ token = Text(<<"4", "2", ".", "5", " ", "m", "s">>)
    /\ parsed = Finite(FALSE, 425, -1)

\* C12: parse_float returns a finite value or no value for every token,
\* an absent field, "inf", "nan" and "1e999" included; never an infinite or
\* not-a-number value.
C12_FiniteOrNoValue ==
    parsed # Pending => (parsed.kind = "None" \/ parsed.cls = "finite")

(***************************************************************************)
(* Claims about the analyzers.                                             *)
(***************************************************************************)
HasResult == result # Pending /\ result.kind = "done"
Parses(tok) == ValueOf(tok) # None
\* The rows that carry key k and whose value field parses; all rows count
\* as carrying "k1" where the analyzer does not group.
KeyRows(k) ==
    {i \in DOMAIN rows : /\ Parses(rows[i].val)
                         /\ IF analyzer \in Grouping THEN rows[i].key = k ELSE k = "k1"}
\* The values the analyzer collects under name k, as indexed rows: for the
\* two-column tests k1 is the first column and k2 the second.
NamedRows(k) ==
    CASE analyzer = 3 /\ k = "k2" -> {i \in DOMAIN rows : Parses(rows[i].val2)}
      [] analyzer = 9 -> {i \in DOMAIN rows : Parses(rows[i].val) /\ Parses(rows[i].val2)}
      [] OTHER -> KeyRows(k)
NamedValue(k, i) ==
    IF analyzer \in TwoColumns /\ k = "k2" THEN Abs(ValueOf(rows[i].val2)[1])
    ELSE ValueOf(rows[i].val)[1]
AllZeroRows(k, I) == I # {} /\ \A i \in I : NamedValue(k, i) = 0

\* C13: in every analyzer (startup, CPU, pull time, namespace, memory as
\* well as copy-up, write and metadata) a bucket of one or more values that
\* are all zero is flagged and not summarized; an empty bucket is not flagged.
C13_AllZeroFlagged ==
    (HasResult /\ analyzer # 8) =>
        \A k \in GroupKeys :
            /\ AllZeroRows(k, NamedRows(k)) =>
                  (k \in result.flagged /\ k \notin DOMAIN result.all_stats)
            /\ NamedRows(k) = {} => k \notin result.flagged

\* s summarizes exactly the values of the rows I.
Summarizes(s, k, I) ==
    /\ s.n = Cardinality(I)
    /\ \E i \in I : s.min = NamedValue(k, i)
    /\ \E i \in I : s.max = NamedValue(k, i)
    /\ \A i \in I : s.min <= NamedValue(k, i) /\ NamedValue(k, i) <= s.max
    /\ 2 * Abs(s.n * s.mean - SumOver(I, [i \in I |-> NamedValue(k, i)])) <= s.n
TotalN == SumOver(DOMAIN result.all_stats, [k \in DOMAIN result.all_stats |-> result.all_stats[k].n])
ParseableRows == {i \in DOMAIN rows : Parses(rows[i].val)}

\* C18 as stated: in every grouping analyzer the sample of a key is exactly
\* the parsed values of its rows, and the n over all keys sum to the number
\* of parseable rows.
C18_SamplePerKey ==
    (HasResult /\ analyzer \in Grouping) =>
        /\ \A k \in GroupKeys :
              /\ (k \in DOMAIN result.all_stats) = (KeyRows(k) # {})
              /\ KeyRows(k) # {} => Summarizes(result.all_stats[k], k, KeyRows(k))
        /\ TotalN = Cardinality(ParseableRows)

\* The rows an analyzer keeps for key k: test 8 keeps positive values only.
KeptRows(k) ==
    IF analyzer = 8 THEN {i \in KeyRows(k) : NamedValue(k, i) > 0} ELSE KeyRows(k)
\* Tests 4 and 5 do not summarize a bucket that is all zero.
Dropped(k) == analyzer \in {4, 5} /\ AllZeroRows(k, KeptRows(k))
ExampleRows ==
    << Row("k1", Text(<<"1", "0", "0">>), NoneToken),
       Row("k1", Text(<<"1", "1", "0">>), NoneToken),
       Row("k1", Text(<<"1", "0", "5">>), NoneToken) >>

\* C18: in startup latency and pull time the sample of a key is exactly the
\* parsed values of its rows, no bucket is empty and the n sum to the number
\* of parseable rows; network latency also leaves out values <= 0, write
\* performance and metadata leave out a bucket that is all zero.  Rows 100,
\* 110, 105 under one key give n = 3, mean 105.0 and the ci_95 of 2.776.
C18_SamplePerKeyByAnalyzer ==
    (HasResult /\ analyzer \in Grouping) =>
        /\ \A k \in GroupKeys :
              /\ (k \in DOMAIN result.all_stats) = (KeptRows(k) # {} /\ ~Dropped(k))
              /\ (k \in DOMAIN result.all_stats) =>
                    /\ Summarizes(result.all_stats[k], k, KeptRows(k))
                    /\ result.all_stats[k].n >= 1
        /\ TotalN = Cardinality(UNION {KeptRows(k) : k \in {j \in GroupKeys : ~Dropped(j)}})
        /\ (analyzer \in {1, 6}) => TotalN = Cardinality(ParseableRows)
        /\ (analyzer = 1 /\ rows = ExampleRows) =>
              /\ result.all_stats["k1"].n = 3
              /\ result.all_stats["k1"].mean = 10500
              /\ NearestToHalfWidth(result.all_stats["k1"].ci_95, <<347, 125>>,
                                    <<10000, 11000, 10500>>)
              /\ ~NearestToHalfWidth(result.all_stats["k1"].ci_95, <<1131, 500>>,
                                     <<10000, 11000, 10500>>)
C18_Witness ==
    /\ HasResult
    /\ analyzer = 1
    /\ rows = ExampleRows
    /\ result.all_stats["k1"].n = 3
    /\ result.all_stats["k1"].mean = 10500
    /\ result.all_stats["k1"].ci_95 = 801

(***************************************************************************)
(* Claims about main.                                                      *)
(***************************************************************************)
Started == pc # "idle"
SingleMode == Started /\ argv # <<>> /\ argv[1] # Compare
ExistingSingle == SingleMode /\ fs[argv[1]].isdir
FilesOf(d) == fs[d].files

\* C14: in single-directory mode on an existing directory, whichever of
\* the nine files are missing, each analyzer whose file is missing gives
\* the skip notice and an empty result, the analyzers are called in the
\* order test 1 to test 9, and the run ends only after all nine, with
\* status 0.  (Files that are there have the columns their analyzer
\* indexes.)
C14_MissingFilesSkipped ==
    (ExistingSingle /\ \A i \in Analyzers : FilesOf(argv[1])[i] # "nogroup") =>
        /\ \A j \in DOMAIN calls :
              /\ calls[j].test = j
              /\ calls[j].dir = argv[1]
              /\ (calls[j].outcome = "skip") = (FilesOf(argv[1])[j] = "missing")
        /\ pc = "exited" => (Len(calls) = 9 /\ exit_status = Some(0))
        /\ pc # "exited" => exit_status = None
C14_Witness ==
    /\ ExistingSingle
    /\ pc = "exited"
    /\ FilesOf(argv[1])[1] = "missing"
    /\ FilesOf(argv[1])[9] = "missing"
    /\ FilesOf(argv[1])[5] = "ok"
    /\ Len(calls) = 9
    /\ calls[1].outcome = "skip"
    /\ calls[5].outcome = "summary"
    /\ exit_status = Some(0)

\* C15: a file that is there but lacks an expected column, the value column
\* or a grouping column, is not fatal: no analyzer raises and the remaining
\* analyses still run.
C15_MissingColumnNonFatal ==
    (ExistingSingle /\ pc = "exited") =>
        /\ \A j \in DOMAIN calls : calls[j].outcome # "raised"
        /\ Len(calls) = 9
        /\ exit_status = Some(0)

\* An invocation the specification calls invalid.
InvalidInvocation ==
    \/ argv = <<>>
    \/ argv[1] = Compare /\ Len(argv) < 3
    \/ \E j \in DOMAIN argv : argv[j] # Compare /\ ~fs[argv[j]].isdir

\* C16: every invalid invocation (no arguments, --compare with fewer than
\* two directories, a named directory that does not exist in either mode)
\* ends with non-zero status after usage or error text and before any
\* analysis runs.
C16_InvalidInvocationExits ==
    (Started /\ InvalidInvocation) =>
        /\ calls = <<>>
        /\ pc = "exited" => (exit_status = Some(1) /\ message # "")

(***************************************************************************)
(* Claims about cross_platform_comparison.                                 *)
(***************************************************************************)
Swept == sweep # Pending
GivenDirs == {DirOf(platform_dirs[i]) : i \in DOMAIN platform_dirs}
HasWarm(d, img) == startup[d].kind = "groups" /\ img \in DOMAIN startup[d].warm
\* The test of two samples is "not applicable" without scipy or with fewer
\* than 5 values on a side.
Applicable(d1, d2, img) ==
    /\ HAS_SCIPY
    /\ Len(startup[d1].warm[img]) >= MinGroupSize
    /\ Len(startup[d2].warm[img]) >= MinGroupSize
\* The lines printed for image img between directories d1 and d2.
LinesBetween(img, d1, d2) ==
    {q \in DOMAIN sweep.tests : /\ sweep.tests[q].image = img
                                /\ {sweep.tests[q].dir1, sweep.tests[q].dir2} = {d1, d2}
                                /\ sweep.tests[q].result # NoResult}

\* C17: with k >= 2 directories, for each image every unordered pair of
\* distinct directories that have warm-start data for it is tested exactly
\* once, its line omitted only when the test is not applicable, and no
\* directory is tested against itself.
C17_EveryPairOnce ==
    Swept =>
        /\ \A q \in DOMAIN ImageLabels, d1 \in GivenDirs, d2 \in GivenDirs :
              (d1 # d2 /\ HasWarm(d1, ImageLabels[q]) /\ HasWarm(d2, ImageLabels[q])) =>
                  Cardinality(LinesBetween(ImageLabels[q], d1, d2))
                      = IF Applicable(d1, d2, ImageLabels[q]) THEN 1 ELSE 0
        /\ \A q \in DOMAIN sweep.tests : sweep.tests[q].dir1 # sweep.tests[q].dir2

(***************************************************************************)
(* Claims about compute_stats and the order of its input.                  *)
(***************************************************************************)
\* the summary of a list and the summary of a reordering of it are identical
SameSummary == (stats # Pending /\ stats2 # Pending) => stats2 = stats

\* C19: compute_stats does not depend on insertion order and leaves its input
\* untouched: the summary of a list and of any reordering of it are
\* identical, and no call changes the caller's list.
C19_OrderIndependent ==
    /\ []SameSummary
    /\ [][values' = values /\ reordered' = reordered]_vars

\* a list of four measurements whose standard deviation is a decimal tie
\* (0.015), reported as 0.02 in one order and 0.01 in another
C19_TieSplits ==
    /\ values = <<Some(0), Some(0), Some(0), Some(3)>>
    /\ reordered = <<Some(0), Some(0), Some(3), Some(0)>>
    /\ stats # Pending /\ stats.std = 2
    /\ stats2 # Pending /\ stats2.std = 1

(***************************************************************************)
(* Claims about the effect-size label and the reported delta.              *)
(***************************************************************************)
\* |reported cliffs_delta|, in thousandths
ReportedAbsDelta == Abs(mw.cliffs_delta)

\* the label the thresholds give for a magnitude in thousandths
LabelOfThousandths(r) ==
    IF r < 147 THEN "negligible"
    ELSE IF r < 330 THEN "small"
    ELSE IF r < 474 THEN "medium"
    ELSE "large"

\* C20 as stated: the thresholds 0.147 / 0.33 / 0.474 applied to the absolute
\* value of the reported (3-decimal) cliffs_delta give the returned label.
C20_LabelAgreesWithReported ==
    HasMW => mw.effect_size = LabelOfThousandths(ReportedAbsDelta)

\* |gt - lt|: the magnitude of the unrounded delta times the number of pairs
AbsPairDiff == Abs(PairsGT - PairsLT)

\* the unrounded |delta| is below the threshold thr/1000 by at most 0.0005
JustBelow(thr) ==
    /\ 1000 * AbsPairDiff < thr * NPairs
    /\ 2000 * AbsPairDiff >= (2 * thr - 1) * NPairs

\* C20 amended: the label is the one the thresholds give for the unrounded
\* |delta|; it is also the label of the reported delta unless the unrounded
\* |delta| lies less than 0.0005 below a threshold, and then the reported
\* delta is the threshold itself and the label is the class under it.
C20_LabelOfUnrounded ==
    HasMW =>
        /\ mw.effect_size =
              (IF 1000 * AbsPairDiff < 147 * NPairs THEN "negligible"
               ELSE IF 1000 * AbsPairDiff < 330 * NPairs THEN "small"
               ELSE IF 1000 * AbsPairDiff < 474 * NPairs THEN "medium"
               ELSE "large")
        /\ (~JustBelow(147) /\ ~JustBelow(330) /\ ~JustBelow(474))
              => mw.effect_size = LabelOfThousandths(ReportedAbsDelta)
        /\ JustBelow(147) => ReportedAbsDelta = 147 /\ mw.effect_size = "negligible"
        /\ JustBelow(330) => ReportedAbsDelta = 330 /\ mw.effect_size = "small"
        /\ JustBelow(474) => ReportedAbsDelta = 474 /\ mw.effect_size = "medium"

\* 5 against 15 values with |gt - lt| = 11: delta 0.14667 is reported as
\* 0.147 and labelled "negligible".
C20_Witness ==
    /\ HasMW
    /\ NPairs = 75
    /\ AbsPairDiff = 11
    /\ ReportedAbsDelta = 147
    /\ mw.effect_size = "negligible"

(***************************************************************************)
(* Claims about the platform map of cross_platform_comparison.             *)
(***************************************************************************)
\* the distinct directories given that hold a startup-latency file
DirsWithStartup == {d \in GivenDirs : startup[d].kind = "groups"}

\* C21: every supplied directory with a startup-latency file has its own
\* entry in the platform map: k distinct such directories give k entries,
\* and with at least 2 of them the tables are produced, not the notice.
C21_EntryPerDirectory ==
    Swept =>
        /\ Cardinality(DOMAIN sweep.platform_startup) = Cardinality(DirsWithStartup)
        /\ Cardinality(DirsWithStartup) >= 2 => sweep.kind = "tables"

\* x/a and y/a both hold startup data and are the only directories given:
\* one entry, named "a", and the notice instead of the tables.
C21_SharedNameCollapses ==
    /\ Swept
    /\ DirsWithStartup = {<<"x", "a">>, <<"y", "a">>}
    /\ DOMAIN sweep.platform_startup = {"a"}
    /\ sweep.kind = "need2"

(***************************************************************************)
(* Claims about the tables of cross_platform_comparison.                   *)
(***************************************************************************)
\* the analyzer and the table have both handled the file
Tabulated == result # Pending /\ table # Pending

\* C22: for the same file the table of cross_platform_comparison and the
\* analyzer summarize the same sample: the n and mean of the table line are
\* those of the analyzer's summary, and the table has no numbers exactly
\* when the analyzer has no summary.
C22_TableMatchesAnalyzer ==
    Tabulated =>
        IF "k1" \in DOMAIN result.all_stats
        THEN /\ table # NoValidData
             /\ table.n = result.all_stats["k1"].n
             /\ table.mean = result.all_stats["k1"].mean
        ELSE table = NoValidData

\* measured_pct rows 0 and 0.03: the analyzer summarizes both (n = 2), the
\* table only the positive one (n = 1, mean 0.03).
C22_ZeroDropped ==
    /\ Tabulated
    /\ analyzer = 3
    /\ Column(ParsedRows(rows)) = <<Some(0), Some(3)>>
    /\ result.all_stats["k1"].n = 2
    /\ table.n = 1
    /\ table.mean = 3

====
